---- MODULE Spec2Model ----
(***************************************************************************)
(* Model of the iot888 server (combined_server.py): the WebSocket          *)
(* inference handler with its inference gate, the manual traffic override  *)
(* and the MQTT / Firestore glue around it.                                *)
(*                                                                         *)
(* Spec          the device channels and the clock                         *)
(* SpecApi       the control API and the MQTT client beside one channel    *)
(* SpecBoot      the same from the import of the module on                 *)
(* SpecMqtt      the MQTT client thread and its callbacks                  *)
(* SpecDecision  the Decision Scheduler of spec section 4.4 (zone counts,  *)
(*               publish gate), which is not part of the sources modelled  *)
(*               above and is written from the specification               *)
(* SpecAgg       the Zone Aggregator of spec section 4.3, likewise         *)
(*                                                                         *)
(* Time is counted in ticks; one MIN_INTERVAL is Resolution ticks, so the  *)
(* float comparison `current_time - last_time < MIN_INTERVAL` is an exact  *)
(* integer comparison in the model.                                        *)
(***************************************************************************)
EXTENDS Integers, Sequences, FiniteSets

VARIABLES
    clock,             \* the reading the handlers take of their clock (time.time(), line 220), in ticks
    pc,                \* per channel: position of its inference_socket coroutine
    last_time,         \* per channel: the handler's local last_time
    local_last_frame,  \* per channel: the handler's local name last_frame
    last_frame,        \* the module-level last_frame (line 49)
    outbox,            \* per channel: the response handed to ws.send_json, not yet sent
    err,               \* per channel: the exception caught at line 244
    recv_data,         \* per channel: the handler's local data (line 204)
    mqtt_connected,    \* the threading.Event of line 57
    broker,            \* the MQTT client's session with the broker
    published,         \* payloads handed to mqtt_client.publish on TOPIC_TRAFFIC_OUT
    telemetry,         \* documents of the Firestore collection "telemetry"
    http_resp,         \* the answer of the POST /traffic request being returned
    app,               \* the import of the module: "importing", "serving" or "failed"
    mqtt_thread,       \* the thread of start_mqtt_loop (lines 256-257)
    callback,          \* what the last run of on_message did
    last_publish_time, \* per channel: the Decision Scheduler's publish-gate timer
    agg_in,            \* the arguments of one call of the Zone Aggregator
    agg_out            \* what that call returned

wsVars  == <<clock, pc, last_time, local_last_frame, last_frame, outbox, err,
             recv_data>>
apiVars == <<mqtt_connected, broker, published, telemetry, http_resp,
             app, mqtt_thread, callback>>
decVars == <<last_publish_time, agg_in, agg_out>>
vars    == <<clock, pc, last_time, local_last_frame, last_frame, outbox, err,
             recv_data,
             mqtt_connected, broker, published, telemetry, http_resp,
             app, mqtt_thread, callback,
             last_publish_time, agg_in, agg_out>>

----------------------------------------------------------------------------
(* Configuration *)

TARGET_FPS == 2

\* ticks per MIN_INTERVAL: the time resolution of the model
Resolution == 2

TicksPerSecond == TARGET_FPS * Resolution

MIN_INTERVAL == TicksPerSecond \div TARGET_FPS

\* last value of the clock the model follows
MaxClock == 6

\* time.time() counts from the epoch; the host clock is never set to within
\* MIN_INTERVAL of the epoch itself
Clock == MIN_INTERVAL .. MaxClock

TOPIC_DHT == "iot/esp32/dht11"

TOPIC_SOUND == "iot/esp32/lm393"

TOPIC_TRAFFIC_OUT == "iot/backend/traffic"

SOUND_THRESHOLD == 300

None == "None"

\* no POST /traffic request is being answered
NoResponse == [status_code |-> 0]

\* the Zone Aggregator has not been called
NoArgs == [W |-> 0, N |-> 0, dets |-> <<>>]

NoCall == <<>>

\* on_message has not run
NoCallback == [topic |-> None, payload |-> None, trace |-> <<>>, raised |-> FALSE]

Chan == {"chA", "chB"}

----------------------------------------------------------------------------
(* Inbound text messages and their decoding *)

\* "abc"  : base64 with incorrect padding
\* ""     : decodes to zero bytes
\* "AAAA" : valid base64 of bytes that are no image
\* "jpg1", "jpg2" : valid base64 of two encoded images
Texts == {"abc", "", "AAAA", "jpg1", "jpg2"}

Raise == "Raise"

\* base64.b64decode(data): raises binascii.Error on incorrect padding
b64decode(data) ==
    CASE data = "abc"  -> Raise
      [] data = ""     -> "bytes:empty"
      [] data = "AAAA" -> "bytes:garbage"
      [] data = "jpg1" -> "bytes:jpeg1"
      [] data = "jpg2" -> "bytes:jpeg2"

\* a decoder that raises for every buffer that holds no image
imdecode_raising(img_bytes) ==
    CASE img_bytes = "bytes:empty"   -> Raise
      [] img_bytes = "bytes:garbage" -> Raise
      [] img_bytes = "bytes:jpeg1"   -> "frame1"
      [] img_bytes = "bytes:jpeg2"   -> "frame2"

\* cv2.imdecode(np.frombuffer(img_bytes, np.uint8), cv2.IMREAD_COLOR):
\* raises cv2.error on an empty buffer, returns None when the bytes are no image
imdecode(img_bytes) ==
    CASE img_bytes = "bytes:empty"   -> Raise
      [] img_bytes = "bytes:garbage" -> None
      [] img_bytes = "bytes:jpeg1"   -> "frame1"
      [] img_bytes = "bytes:jpeg2"   -> "frame2"

Frames == {"frame1", "frame2"}

\* lines 208-210: the frame, None, or Raise when either call raises
DecodeFrame(data) ==
    IF b64decode(data) = Raise THEN Raise ELSE imdecode(b64decode(data))

\* what model(frame_in)[0].boxes can hold: the label of each box
\* (coordinates and confidence are carried through unchanged and not modelled here)
BoxLists == {<<>>, <<"car">>}

\* what the call model(frame_in, verbose=False) of line 233 can do
ModelOutcomes ==
    {[raises |-> TRUE]} \cup {[raises |-> FALSE, boxes |-> b] : b \in BoxLists}

\* lines 234-240: one detection entry per box
Detections(boxes) == [i \in 1 .. Len(boxes) |-> boxes[i]]

----------------------------------------------------------------------------
(* State after import of combined_server *)

InitState ==
    /\ pc = [c \in Chan |-> "idle"]
    /\ last_time = [c \in Chan |-> 0]
    /\ local_last_frame = [c \in Chan |-> None]
    /\ last_frame = None
    /\ outbox = [c \in Chan |-> <<>>]
    /\ err = [c \in Chan |-> None]
    /\ recv_data = [c \in Chan |-> None]
    /\ mqtt_connected = FALSE
    /\ broker = "never"
    /\ published = <<>>
    /\ telemetry = <<>>
    /\ http_resp = NoResponse
    /\ callback = NoCallback
    /\ last_publish_time = [c \in Chan |-> 0]
    /\ agg_out = NoCall

\* the module imported, its MQTT thread in loop_forever
Started ==
    /\ app = "serving"
    /\ mqtt_thread = "looping"

Init ==
    /\ clock = MIN_INTERVAL
    /\ InitState
    /\ Started
    /\ agg_in = NoArgs

----------------------------------------------------------------------------
(* The clock *)

Tick ==
    /\ clock < MaxClock
    /\ clock' = clock + 1
    /\ UNCHANGED <<pc, last_time, local_last_frame, last_frame, outbox, err, recv_data>>
    /\ UNCHANGED apiVars
    /\ UNCHANGED decVars

\* the host's wall clock is stepped (NTP, settimeofday); no time passes
ClockStep(t) ==
    /\ t # clock
    /\ clock' = t
    /\ UNCHANGED <<pc, last_time, local_last_frame, last_frame, outbox, err,
                   recv_data>>
    /\ UNCHANGED apiVars
    /\ UNCHANGED decVars

----------------------------------------------------------------------------
(* inference_socket, combined_server.py lines 195-246 *)

\* the handler with its timer started at the time of the accept
Accept_timer_now(c) ==
    /\ app = "serving"
    /\ pc[c] = "idle"
    /\ pc' = [pc EXCEPT ![c] = "recv"]
    /\ last_time' = [last_time EXCEPT ![c] = clock]
    /\ UNCHANGED <<clock, local_last_frame, last_frame, outbox, err, recv_data>>
    /\ UNCHANGED apiVars
    /\ UNCHANGED decVars

\* lines 197-200
Accept(c) ==
    /\ app = "serving"
    /\ pc[c] = "idle"
    /\ pc' = [pc EXCEPT ![c] = "recv"]
    /\ last_time' = [last_time EXCEPT ![c] = 0]
    /\ UNCHANGED <<clock, local_last_frame, last_frame, outbox, err, recv_data>>
    /\ UNCHANGED apiVars
    /\ UNCHANGED decVars

\* lines 244-246: the exception is printed and the loop is left
Break(c, e) ==
    /\ pc' = [pc EXCEPT ![c] = "closed"]
    /\ err' = [err EXCEPT ![c] = e]

\* the response queued without awaiting its delivery: the loop goes straight
\* back to ws.receive_text
SendJson_unawaited(c, msg) ==
    /\ pc' = pc
    /\ outbox' = [outbox EXCEPT ![c] = Append(@, msg)]
    /\ err' = err

\* a response is handed to ws.send_json (lines 213, 223, 242), which the
\* handler awaits
SendJson(c, msg) ==
    /\ pc' = [pc EXCEPT ![c] = "send"]
    /\ outbox' = [outbox EXCEPT ![c] = <<msg>>]
    /\ err' = err

\* the gate with the comparison off by one tick
Gated_short(current_time, lt) == current_time - lt < MIN_INTERVAL - 1

\* the gate closed for a frame that comes exactly MIN_INTERVAL after the last
\* processed one
Gated_inclusive(current_time, lt) == current_time - lt <= MIN_INTERVAL

\* line 221
Gated(current_time, lt) == current_time - lt < MIN_INTERVAL

\* a timer shared by every channel, as a module-level last_time would be
SetLastTime_shared(c, current_time) == [ch \in Chan |-> current_time]

\* line 226: last_time is a local of the coroutine serving channel c
SetLastTime(c, current_time) == [last_time EXCEPT ![c] = current_time]

\* lines 204-242: one pass of the loop body, from the return of
\* ws.receive_text() to the await of ws.send_json or the exception.
\* data is the text received, result what model(frame_in) does.
Receive(c, data, result) ==
    /\ pc[c] = "recv"
    /\ recv_data' = [recv_data EXCEPT ![c] = data]
    /\ UNCHANGED <<clock, last_frame>>
    /\ UNCHANGED apiVars
    /\ UNCHANGED decVars
    /\ LET frame == DecodeFrame(data)
           current_time == clock
       IN  CASE frame = Raise ->
                  /\ Break(c, IF b64decode(data) = Raise THEN "binascii.Error"
                                                         ELSE "cv2.error")
                  /\ UNCHANGED <<last_time, local_last_frame, outbox>>
             [] frame = None ->
                  /\ SendJson(c, [error |-> "invalid_image"])
                  /\ UNCHANGED <<last_time, local_last_frame>>
             [] frame \in Frames ->
                  \* line 218 binds a local name: the function has no
                  \* `global last_frame`, the module-level name is not written
                  /\ local_last_frame' = [local_last_frame EXCEPT ![c] = frame]
                  /\ IF Gated(current_time, last_time[c])
                     THEN /\ SendJson(c, [detections |-> <<>>, skipped |-> TRUE])
                          /\ UNCHANGED last_time
                     ELSE /\ last_time' = SetLastTime(c, current_time)
                          /\ IF result.raises
                             THEN /\ Break(c, "model")
                                  /\ UNCHANGED outbox
                             ELSE SendJson(c, [detections |-> Detections(result.boxes),
                                               skipped |-> FALSE])

\* ws.send_json completes and the loop returns to ws.receive_text
Sent(c) ==
    /\ pc[c] = "send"
    /\ pc' = [pc EXCEPT ![c] = "recv"]
    /\ outbox' = [outbox EXCEPT ![c] = <<>>]
    /\ UNCHANGED <<clock, last_time, local_last_frame, last_frame, err, recv_data>>
    /\ UNCHANGED apiVars
    /\ UNCHANGED decVars

\* ws.send_json raises: the peer is gone
SendFails(c) ==
    /\ pc[c] = "send"
    /\ Break(c, "send")
    /\ outbox' = [outbox EXCEPT ![c] = <<>>]
    /\ UNCHANGED <<clock, last_time, local_last_frame, last_frame, recv_data>>
    /\ UNCHANGED apiVars
    /\ UNCHANGED decVars

\* ws.receive_text raises: the peer disconnected or sent a binary message
Disconnect(c) ==
    /\ pc[c] = "recv"
    /\ Break(c, "WebSocketDisconnect")
    /\ UNCHANGED <<clock, last_time, local_last_frame, last_frame, outbox,
                   recv_data>>
    /\ UNCHANGED apiVars
    /\ UNCHANGED decVars

\* every step one channel's handler can take
Handler(c) ==
    \/ Accept(c)
    \/ \E data \in Texts, result \in ModelOutcomes : Receive(c, data, result)
    \/ Sent(c)
    \/ SendFails(c)
    \/ Disconnect(c)

----------------------------------------------------------------------------
(* Startup, combined_server.py lines 60-74 and 251-262 *)

\* line 262, the call of start_background_services() while uvicorn imports the
\* module. cred_ok: credentials.Certificate and initialize_app succeed (or a
\* default app exists); otherwise init_firebase raises RuntimeError, the
\* import fails and the thread of lines 256-257 is never started.
start_background_services(cred_ok) ==
    /\ app = "importing"
    /\ IF cred_ok
       THEN /\ app' = "serving"
            /\ mqtt_thread' = "connecting"
       ELSE /\ app' = "failed"
            /\ UNCHANGED mqtt_thread
    /\ UNCHANGED <<mqtt_connected, broker, published, telemetry, http_resp, callback>>
    /\ UNCHANGED wsVars
    /\ UNCHANGED decVars

\* lines 169-175 in the daemon thread. connect_ok: mqtt_client.connect does
\* not raise; if it raises (broker unreachable: ConnectionRefusedError,
\* socket.gaierror, timeout) the exception ends the thread and nothing else.
start_mqtt_loop(connect_ok) ==
    /\ mqtt_thread = "connecting"
    /\ mqtt_thread' = IF connect_ok THEN "looping" ELSE "dead"
    /\ UNCHANGED <<mqtt_connected, broker, published, telemetry, http_resp,
                   app, callback>>
    /\ UNCHANGED wsVars
    /\ UNCHANGED decVars

----------------------------------------------------------------------------
(* MQTT client thread, combined_server.py lines 78-84 and 169-175 *)

\* CONNACK codes the broker answers with: 0 accepted, 5 not authorised
ConnackCodes == {0, 5}

\* on_connect: called for every CONNACK, whatever its result code
on_connect(rc) ==
    /\ mqtt_thread = "looping"
    /\ broker # "up"
    /\ broker' = IF rc = 0 THEN "up" ELSE broker
    /\ mqtt_connected' = TRUE
    /\ UNCHANGED <<published, telemetry, http_resp, app, mqtt_thread, callback>>
    /\ UNCHANGED wsVars
    /\ UNCHANGED decVars

\* the session with the broker is lost; the client installs no on_disconnect,
\* loop_forever goes on and reconnects later
ConnectionLost ==
    /\ broker = "up"
    /\ broker' = "down"
    /\ UNCHANGED <<mqtt_connected, published, telemetry, http_resp,
                   app, mqtt_thread, callback>>
    /\ UNCHANGED wsVars
    /\ UNCHANGED decVars

----------------------------------------------------------------------------
(* Telemetry and the manual override, lines 87-98 and 180-192 *)

\* the adapter without its try/except: the store's exception leaves the call
store_message_uncaught(topic, payload, ok) ==
    [docs   |-> IF ok THEN Append(telemetry, [topic |-> topic, payload |-> payload])
                      ELSE telemetry,
     raised |-> ~ok]

\* store_message_to_firestore(topic, payload): the collection afterwards and
\* whether the call raises. ok is whether db.collection("telemetry").add(doc)
\* succeeds; its exception is caught at line 97 and printed. The timestamps
\* of the document are not modelled.
store_message_to_firestore(topic, payload, ok) ==
    [docs   |-> IF ok THEN Append(telemetry, [topic |-> topic, payload |-> payload])
                      ELSE telemetry,
     raised |-> FALSE]

\* path parameters the operator can send
Cmds == {"1", "2", "3", "4", "left"}

ValidCmds == {"1", "2", "3"}

\* length up to which the model follows the publish log
MaxPublished == 2

\* the override sent through a publish gate: a second command is swallowed
publish_traffic_gated(cmd, store_ok) ==
    /\ app = "serving"
    /\ http_resp = NoResponse
    /\ Len(published) < MaxPublished
    /\ UNCHANGED <<mqtt_connected, broker, app, mqtt_thread, callback>>
    /\ UNCHANGED wsVars
    /\ UNCHANGED decVars
    /\ IF cmd \notin ValidCmds
       THEN /\ http_resp' = [status_code |-> 400]
            /\ UNCHANGED <<published, telemetry>>
       ELSE IF ~mqtt_connected
       THEN /\ http_resp' = [status_code |-> 503]
            /\ UNCHANGED <<published, telemetry>>
       ELSE IF published # <<>>
       THEN /\ http_resp' = [status_code |-> 200, status |-> "published",
                             topic |-> TOPIC_TRAFFIC_OUT, cmd |-> cmd]
            /\ UNCHANGED <<published, telemetry>>
       ELSE /\ published' = Append(published, cmd)
            /\ telemetry' = IF store_ok
                            THEN Append(telemetry, [topic |-> TOPIC_TRAFFIC_OUT,
                                                    payload |-> cmd])
                            ELSE telemetry
            /\ http_resp' = [status_code |-> 200, status |-> "published",
                             topic |-> TOPIC_TRAFFIC_OUT, cmd |-> cmd]

\* the override with its two checks in the other order
publish_traffic_connection_first(cmd, store_ok) ==
    /\ app = "serving"
    /\ http_resp = NoResponse
    /\ Len(published) < MaxPublished
    /\ UNCHANGED <<mqtt_connected, broker, app, mqtt_thread, callback>>
    /\ UNCHANGED wsVars
    /\ UNCHANGED decVars
    /\ IF ~mqtt_connected
       THEN /\ http_resp' = [status_code |-> 503]
            /\ UNCHANGED <<published, telemetry>>
       ELSE IF cmd \notin ValidCmds
       THEN /\ http_resp' = [status_code |-> 400]
            /\ UNCHANGED <<published, telemetry>>
       ELSE /\ published' = Append(published, cmd)
            /\ telemetry' = IF store_ok
                            THEN Append(telemetry, [topic |-> TOPIC_TRAFFIC_OUT,
                                                    payload |-> cmd])
                            ELSE telemetry
            /\ http_resp' = [status_code |-> 200, status |-> "published",
                             topic |-> TOPIC_TRAFFIC_OUT, cmd |-> cmd]

\* the override writing its record first: before the connection check and
\* before the publish
publish_traffic_record_first(cmd, store_ok) ==
    /\ app = "serving"
    /\ http_resp = NoResponse
    /\ Len(published) < MaxPublished
    /\ UNCHANGED <<mqtt_connected, broker, app, mqtt_thread, callback>>
    /\ UNCHANGED wsVars
    /\ UNCHANGED decVars
    /\ IF cmd \notin ValidCmds
       THEN /\ http_resp' = [status_code |-> 400]
            /\ UNCHANGED <<published, telemetry>>
       ELSE /\ telemetry' = store_message_to_firestore(TOPIC_TRAFFIC_OUT, cmd, store_ok).docs
            /\ IF ~mqtt_connected
               THEN /\ http_resp' = [status_code |-> 503]
                    /\ UNCHANGED published
               ELSE /\ published' = Append(published, cmd)
                    /\ http_resp' = [status_code |-> 200, status |-> "published",
                                     topic |-> TOPIC_TRAFFIC_OUT, cmd |-> cmd]

\* publish_traffic(cmd), lines 181-192
publish_traffic(cmd, store_ok) ==
    /\ app = "serving"
    /\ http_resp = NoResponse
    /\ Len(published) < MaxPublished
    /\ UNCHANGED <<mqtt_connected, broker, app, mqtt_thread, callback>>
    /\ UNCHANGED wsVars
    /\ UNCHANGED decVars
    /\ IF cmd \notin ValidCmds
       THEN /\ http_resp' = [status_code |-> 400]
            /\ UNCHANGED <<published, telemetry>>
       ELSE IF ~mqtt_connected
       THEN /\ http_resp' = [status_code |-> 503]
            /\ UNCHANGED <<published, telemetry>>
       ELSE LET stored == store_message_to_firestore(TOPIC_TRAFFIC_OUT, cmd, store_ok)
            IN  /\ published' = Append(published, cmd)
                /\ telemetry' = stored.docs
                \* an exception leaving the endpoint is answered 500 by FastAPI
                /\ http_resp' = IF stored.raised
                                THEN [status_code |-> 500]
                                ELSE [status_code |-> 200, status |-> "published",
                                      topic |-> TOPIC_TRAFFIC_OUT, cmd |-> cmd]

\* the response has gone back to the operator
HttpReturn ==
    /\ http_resp # NoResponse
    /\ http_resp' = NoResponse
    /\ UNCHANGED <<mqtt_connected, broker, published, telemetry,
                   app, mqtt_thread, callback>>
    /\ UNCHANGED wsVars
    /\ UNCHANGED decVars

----------------------------------------------------------------------------
(* The message callback, lines 101-136 *)

\* topics subscribed in on_connect (lines 81-82)
Topics == {TOPIC_DHT, TOPIC_SOUND}

\* msg.payload as the broker delivers it:
\* "412", "12"        : a number at or above the threshold, and one below
\* "{value: 350}"     : a JSON object with a member "value"
\* "{}"               : a JSON object without it
\* "[1]"              : JSON, but no object
\* "loud"             : neither a number nor JSON
\* "0xff"             : bytes that are no UTF-8
Payloads == {"412", "12", "{value: 350}", "{}", "[1]", "loud", "0xff"}

\* lines 102-105: msg.payload.decode(), or str(msg.payload) when it raises
PayloadText(raw) == IF raw = "0xff" THEN "b'\\xff'" ELSE raw

\* a call that raised, and one that returned v
Raised == [raised |-> TRUE]

Returned(v) == [raised |-> FALSE, value |-> v]

\* float(payload), line 118
float(payload) ==
    CASE payload = "412" -> Returned(412)
      [] payload = "12"  -> Returned(12)
      [] OTHER           -> Raised

\* json.loads(payload), line 124
json_loads(payload) ==
    CASE payload = "{value: 350}" -> Returned([dict |-> TRUE, has_value |-> TRUE, value |-> 350])
      [] payload = "{}"           -> Returned([dict |-> TRUE, has_value |-> FALSE, value |-> 0])
      [] payload = "[1]"          -> Returned([dict |-> FALSE, has_value |-> FALSE, value |-> 0])
      [] payload = "412"          -> Returned([dict |-> FALSE, has_value |-> FALSE, value |-> 412])
      [] payload = "12"           -> Returned([dict |-> FALSE, has_value |-> FALSE, value |-> 12])
      [] OTHER                    -> Raised

\* val is None
NoVal == [raised |-> FALSE, none |-> TRUE, val |-> 0]

Val(v) == [raised |-> FALSE, none |-> FALSE, val |-> v]

\* the conversions without the inner try/except of lines 121-127: a payload
\* that is neither a number nor JSON raises out of the callback
sound_value_unguarded(payload) ==
    IF ~float(payload).raised
    THEN Val(float(payload).value)
    ELSE IF json_loads(payload).raised
         THEN [raised |-> TRUE, none |-> TRUE, val |-> 0]
         ELSE LET js == json_loads(payload).value
              IN  IF js.dict THEN Val(IF js.has_value THEN js.value ELSE 0)
                             ELSE NoVal

\* lines 117-127: val, and whether the conversions raise out of the callback.
\* json.loads raising, and js.get raising because js is no dict, are caught
\* at line 126.
sound_value(payload) ==
    IF ~float(payload).raised
    THEN Val(float(payload).value)
    ELSE IF json_loads(payload).raised
         THEN NoVal
         ELSE LET js == json_loads(payload).value
              IN  IF js.dict THEN Val(IF js.has_value THEN js.value ELSE 0)
                             ELSE NoVal

\* length up to which the model follows the telemetry collection
MaxTelemetry == 2

\* on_message(client, userdata, msg) with msg.topic = topic and
\* msg.payload = raw, called by the network loop of the MQTT thread.
\* callback.trace lists what the call did, in order: "store" the call of
\* store_message_to_firestore (line 110, its exception caught at line 111),
\* "sound" the handling of lines 115-136, "loud" the print of line 132.
on_message(topic, raw, store_ok) ==
    /\ mqtt_thread = "looping"
    /\ broker = "up"
    /\ Len(telemetry) < MaxTelemetry
    /\ LET payload == PayloadText(raw)
           val == sound_value(payload)
       IN  /\ telemetry' = store_message_to_firestore(topic, payload, store_ok).docs
           /\ callback' =
                 [topic   |-> topic,
                  payload |-> payload,
                  trace   |-> <<"store">>
                              \o (IF topic = TOPIC_SOUND THEN <<"sound">> ELSE <<>>)
                              \o (IF /\ topic = TOPIC_SOUND
                                     /\ ~val.raised
                                     /\ ~val.none
                                     /\ val.val >= SOUND_THRESHOLD
                                  THEN <<"loud">> ELSE <<>>),
                  raised  |-> topic = TOPIC_SOUND /\ val.raised]
    /\ UNCHANGED <<mqtt_connected, broker, published, http_resp, app, mqtt_thread>>
    /\ UNCHANGED wsVars
    /\ UNCHANGED decVars

----------------------------------------------------------------------------
(* Zone Aggregator, spec section 4.3 *)

\* the configured vehicle label set
VehicleLabels == {"car", "bus", "truck", "motorcycle"}

\* zone i of N over a frame of width W is [ZoneStart, ZoneEnd): equal integer
\* widths, the last zone takes the remainder up to W
ZoneStart(W, N, i) == (i - 1) * (W \div N)

\* the last zone ending where the equal widths end
ZoneEnd_equal(W, N, i) == i * (W \div N)

ZoneEnd(W, N, i) == IF i = N THEN W ELSE i * (W \div N)

\* the midpoint (x1 + x2) / 2 lies in zone i; both sides are doubled so that a
\* half-pixel midpoint needs no fraction
InZone(W, N, i, d) ==
    /\ 2 * ZoneStart(W, N, i) <= d.x1 + d.x2
    /\ d.x1 + d.x2 < 2 * ZoneEnd(W, N, i)

\* the first zone holding the detection's midpoint, 0 when none does
ZoneOf(W, N, d) ==
    IF \E i \in 1 .. N : InZone(W, N, i, d)
    THEN CHOOSE i \in 1 .. N :
            /\ InZone(W, N, i, d)
            /\ \A j \in 1 .. i - 1 : ~InZone(W, N, j, d)
    ELSE 0

\* aggregate(frameWidth, frameHeight, detections, zoneCount): the height is
\* not read
aggregate(W, dets, N) ==
    [z \in 1 .. N |->
        Cardinality({k \in 1 .. Len(dets) :
                        /\ dets[k].label \in VehicleLabels
                        /\ ZoneOf(W, N, dets[k]) = z})]

\* one call of the aggregator on the arguments drawn
Aggregate ==
    /\ agg_in # NoArgs
    /\ agg_out = NoCall
    /\ agg_out' = aggregate(agg_in.W, agg_in.dets, agg_in.N)
    /\ UNCHANGED agg_in
    /\ UNCHANGED <<last_publish_time>>
    /\ UNCHANGED wsVars
    /\ UNCHANGED apiVars

\* the caller drops the counts: they live for one decision cycle only
Discard ==
    /\ agg_out # NoCall
    /\ agg_out' = NoCall
    /\ agg_in' = NoArgs
    /\ UNCHANGED <<last_publish_time>>
    /\ UNCHANGED wsVars
    /\ UNCHANGED apiVars

\* bounds of the arguments drawn
MaxWidth == 3

MaxZones == 3

MaxDets == 2

Labels == {"car", "person"}

\* boxes the detector can report on a frame of width W: clipped to the frame
BoxesOn(W) ==
    UNION {{[x1 |-> a, x2 |-> b, label |-> l] : b \in a .. W, l \in Labels} :
              a \in 0 .. W}

----------------------------------------------------------------------------
(* Decision Scheduler, spec section 4.4 *)

ZONE_COUNT == 3

FRAME_WIDTH == 900

\* minPublishDelay, in ticks: longer than the inference interval
MIN_PUBLISH_DELAY == MIN_INTERVAL + 1

\* argmax over the counts, the lowest zone winning a tie
Busiest(counts) ==
    CHOOSE z \in DOMAIN counts :
        /\ \A y \in DOMAIN counts : counts[y] <= counts[z]
        /\ \A y \in DOMAIN counts : y < z => counts[y] < counts[z]

\* the zone value as the string the command carries
ZoneCmd(z) == <<"1", "2", "3">>[z]

\* the publish gate letting every cycle through
PublishGated_open(now, lp) == FALSE

\* the publish gate: too soon after the last emitted command
PublishGated(now, lp) == now - lp < MIN_PUBLISH_DELAY

\* detections of the frames the devices send: none, one car on the left, and
\* the example of section 8 (midpoints 50 car, 620 bus, 640 car, 10 person)
SceneBoxes ==
    { <<>>,
      <<[x1 |-> 40, x2 |-> 60, label |-> "car"]>>,
      <<[x1 |-> 40, x2 |-> 60, label |-> "car"],
        [x1 |-> 600, x2 |-> 640, label |-> "bus"],
        [x1 |-> 620, x2 |-> 660, label |-> "car"],
        [x1 |-> 0, x2 |-> 20, label |-> "person"]>> }

\* one frame through both gates: boxes is what the detector returns for it
DecisionCycle(c, boxes, store_ok) ==
    /\ pc[c] = "recv"
    /\ Len(published) < MaxPublished
    /\ UNCHANGED <<clock, local_last_frame, last_frame, err, recv_data>>
    /\ UNCHANGED <<mqtt_connected, broker, http_resp, app, mqtt_thread, callback>>
    /\ UNCHANGED <<agg_in, agg_out>>
    /\ pc' = [pc EXCEPT ![c] = "send"]
    /\ IF Gated(clock, last_time[c])
       THEN /\ outbox' = [outbox EXCEPT ![c] =
                            <<[detections |-> <<>>, zone_counts |-> <<>>,
                               command |-> None, skipped |-> TRUE]>>]
            /\ UNCHANGED <<last_time, last_publish_time, published, telemetry>>
       ELSE LET counts == aggregate(FRAME_WIDTH, boxes, ZONE_COUNT)
                command == ZoneCmd(Busiest(counts))
            IN  /\ last_time' = [last_time EXCEPT ![c] = clock]
                /\ IF PublishGated(clock, last_publish_time[c])
                   THEN /\ outbox' = [outbox EXCEPT ![c] =
                                        <<[detections |-> boxes, zone_counts |-> counts,
                                           command |-> None, skipped |-> FALSE]>>]
                        /\ UNCHANGED <<last_publish_time, published, telemetry>>
                   ELSE /\ outbox' = [outbox EXCEPT ![c] =
                                        <<[detections |-> boxes, zone_counts |-> counts,
                                           command |-> command, skipped |-> FALSE]>>]
                        /\ last_publish_time' = [last_publish_time EXCEPT ![c] = clock]
                        /\ published' = Append(published, command)
                        /\ telemetry' =
                              store_message_to_firestore(TOPIC_TRAFFIC_OUT, command,
                                                         store_ok).docs

----------------------------------------------------------------------------
(* Specifications *)

\* the device channels and the clock
NextWs ==
    \/ Tick
    \/ \E t \in Clock : ClockStep(t)
    \/ \E c \in Chan : Handler(c)

Spec == Init /\ [][NextWs]_vars

\* the control API and the MQTT client, beside one live device channel
NextApi ==
    \/ \E rc \in ConnackCodes : on_connect(rc)
    \/ ConnectionLost
    \/ \E cmd \in Cmds, store_ok \in BOOLEAN : publish_traffic(cmd, store_ok)
    \/ HttpReturn
    \/ Tick
    \/ Handler("chA")

SpecApi == Init /\ [][NextApi]_vars

\* the module is being imported
InitBoot ==
    /\ clock = MIN_INTERVAL
    /\ InitState
    /\ app = "importing"
    /\ mqtt_thread = "not_started"
    /\ agg_in = NoArgs

NextBoot ==
    \/ \E cred_ok \in BOOLEAN : start_background_services(cred_ok)
    \/ \E connect_ok \in BOOLEAN : start_mqtt_loop(connect_ok)
    \/ \E rc \in ConnackCodes : on_connect(rc)
    \/ ConnectionLost
    \/ \E cmd \in Cmds, store_ok \in BOOLEAN : publish_traffic(cmd, store_ok)
    \/ HttpReturn
    \/ Handler("chA")

SpecBoot == InitBoot /\ [][NextBoot]_vars

\* the MQTT thread in loop_forever: connections, losses, messages
NextMqtt ==
    \/ \E rc \in ConnackCodes : on_connect(rc)
    \/ ConnectionLost
    \/ \E topic \in Topics, raw \in Payloads, store_ok \in BOOLEAN :
          on_message(topic, raw, store_ok)

SpecMqtt == Init /\ [][NextMqtt]_vars

\* the Zone Aggregator called on every argument within the bounds
InitAgg ==
    /\ clock = MIN_INTERVAL
    /\ InitState
    /\ Started
    /\ \E w \in 1 .. MaxWidth, n \in 1 .. MaxZones, k \in 0 .. MaxDets :
          \E ds \in [1 .. k -> BoxesOn(w)] :
             agg_in = [W |-> w, N |-> n, dets |-> ds]

NextAgg ==
    \/ Aggregate
    \/ Discard

SpecAgg == InitAgg /\ [][NextAgg]_vars

\* the Decision Scheduler on the device channels; its clock starts late enough
\* for the first cycle to pass both gates, as a clock counting from the epoch does
InitDecision ==
    /\ clock = MIN_PUBLISH_DELAY
    /\ InitState
    /\ Started
    /\ agg_in = NoArgs

NextDecision ==
    \/ Tick
    \/ \E c \in Chan : Accept(c)
    \/ \E c \in Chan, boxes \in SceneBoxes, store_ok \in BOOLEAN :
          DecisionCycle(c, boxes, store_ok)
    \/ \E c \in Chan : Sent(c)

SpecDecision == InitDecision /\ [][NextDecision]_vars

----------------------------------------------------------------------------
(* Properties of the device channels, checked under Spec *)

\* a pass of the loop body on channel c that decoded data to a frame
FramePass(c, data) ==
    /\ DecodeFrame(data) \in Frames
    /\ \E result \in ModelOutcomes : Receive(c, data, result)

\* a pass of the loop body on channel c that could not decode data
UndecodablePass(c, data) ==
    /\ DecodeFrame(data) \notin Frames
    /\ \E result \in ModelOutcomes : Receive(c, data, result)

\* the pass of channel c that this step takes called the model: the call
\* either raised or its result is what the handler hands to ws.send_json
ModelCalled(c) ==
    /\ pc[c] = "recv"
    /\ \/ pc'[c] = "closed" /\ err'[c] = "model"
       \/ /\ pc'[c] = "send"
          /\ "skipped" \in DOMAIN outbox'[c][1]
          /\ ~outbox'[c][1].skipped

SkippedAck == [detections |-> <<>>, skipped |-> TRUE]

\* C1: a decoded frame that arrives less than MIN_INTERVAL (by the handler's
\* clock) after the last frame for which inference ran is answered with
\* skipped = true and no detections, without a call of the model and without
\* moving the timer; and whenever the model is called on a channel whose timer
\* is set, at least MIN_INTERVAL lies between the two calls.
C1_InferenceGate ==
    [][\A c \in Chan :
          /\ \A data \in Texts :
                (FramePass(c, data) /\ clock - last_time[c] < MIN_INTERVAL)
                    => /\ pc'[c] = "send"
                       /\ outbox'[c] = <<SkippedAck>>
                       /\ last_time'[c] = last_time[c]
                       /\ ~ModelCalled(c)
          /\ ModelCalled(c)
                => /\ clock - last_time[c] >= MIN_INTERVAL
                   /\ last_time'[c] = clock]_vars

\* C1, the case: a frame was skipped on a channel whose timer an earlier
\* inference had set less than MIN_INTERVAL before
C1_Witness ==
    \E c \in Chan :
        /\ pc[c] = "send"
        /\ outbox[c] = <<SkippedAck>>
        /\ last_time[c] > 0
        /\ clock - last_time[c] < MIN_INTERVAL
        /\ clock >= last_time[c]

\* C2: when the model call fails, the channel's last_time is what it was
\* before the frame was received and the handler stays in its loop, so the
\* next frame is gated as if the failed one had never arrived.
C2_ModelFailureLeavesTimer ==
    [][\A c \in Chan :
          (pc[c] = "recv" /\ err'[c] = "model")
              => /\ last_time'[c] = last_time[c]
                 /\ pc'[c] # "closed"]_vars

\* C3: a message that cannot be decoded never ends the handler: after the
\* pass the channel is still open, in or on its way back to ws.receive_text.
C3_UndecodableKeepsHandler ==
    [][\A c \in Chan : \A data \in Texts :
          UndecodablePass(c, data) => pc'[c] # "closed"]_vars

\* C7: after a pass that decoded a frame, whether inference ran or was
\* skipped, the module-level last_frame is that frame.
C7_FrameCacheFresh ==
    [][\A c \in Chan : \A data \in Texts :
          FramePass(c, data) => last_frame' = DecodeFrame(data)]_vars

----------------------------------------------------------------------------
(* Properties of the manual override, checked under SpecApi *)

\* a POST /traffic/{cmd} answered in this step
Override(cmd) == \E store_ok \in BOOLEAN : publish_traffic(cmd, store_ok)

TrafficRecord(cmd) == [topic |-> TOPIC_TRAFFIC_OUT, payload |-> cmd]

\* C4 as stated: every POST /traffic/{cmd} with a valid cmd hands exactly that
\* one command to the broker and records exactly one telemetry entry for it.
C4_EveryValidOverrideEmits ==
    [][\A cmd \in ValidCmds :
          Override(cmd)
              => /\ published' = Append(published, cmd)
                 /\ telemetry' = Append(telemetry, TrafficRecord(cmd))]_vars

\* C4 amended: a POST /traffic/{cmd} with a valid cmd made while mqtt_connected
\* is set hands exactly that one command to mqtt_client.publish, whatever the
\* gate timers and however many commands went before, is answered "published",
\* and makes one telemetry append: one record of that command when the store
\* accepts it, none when the store fails.
C4_AcceptedOverrideEmits ==
    [][\A cmd \in ValidCmds : \A store_ok \in BOOLEAN :
          (publish_traffic(cmd, store_ok) /\ mqtt_connected)
              => /\ published' = Append(published, cmd)
                 /\ telemetry' = IF store_ok
                                 THEN Append(telemetry, TrafficRecord(cmd))
                                 ELSE telemetry
                 /\ http_resp'.status_code = 200
                 /\ http_resp'.cmd = cmd
                 /\ UNCHANGED <<last_time, clock>>]_vars

\* C4, the case: a second command accepted at the very instant a frame set the
\* channel's gate timer, both commands recorded
C4_Witness ==
    /\ Len(published) = 2
    /\ Len(telemetry) = 2
    /\ http_resp # NoResponse
    /\ http_resp.status_code = 200
    /\ http_resp.cmd = published[2]
    /\ last_time["chA"] = clock

\* C5: with the broker session unavailable (never established, or lost), a POST
\* /traffic/{cmd} with a valid cmd is answered 503, publishes nothing and
\* records nothing.
C5_UnavailableBrokerRefuses ==
    [][\A cmd \in ValidCmds :
          (Override(cmd) /\ broker # "up")
              => /\ http_resp'.status_code = 503
                 /\ UNCHANGED <<published, telemetry>>]_vars

\* C6: a POST /traffic/{cmd} with cmd outside {"1","2","3"} is answered 400,
\* connected or not, and changes nothing: no publish, no telemetry record, the
\* frame cache and the gate timers as they were.
C6_InvalidCmdRejected ==
    [][\A cmd \in Cmds \ ValidCmds :
          Override(cmd)
              => /\ http_resp' = [status_code |-> 400]
                 /\ UNCHANGED <<published, telemetry, last_frame, local_last_frame,
                                last_time, mqtt_connected, broker>>]_vars

\* C6, the case: a 400 answered while the broker is not connected and a
\* channel's gate timer is set
C6_Witness ==
    /\ http_resp = [status_code |-> 400]
    /\ ~mqtt_connected
    /\ last_time["chA"] > 0

\* C8: when the telemetry append fails, the override has still handed its
\* command to the broker and still answers with the success payload; nothing
\* is recorded and no error reaches the caller.
C8_TelemetryFailureContained ==
    [][\A cmd \in ValidCmds :
          (publish_traffic(cmd, FALSE) /\ mqtt_connected)
              => /\ published' = Append(published, cmd)
                 /\ telemetry' = telemetry
                 /\ http_resp' = [status_code |-> 200, status |-> "published",
                                  topic |-> TOPIC_TRAFFIC_OUT, cmd |-> cmd]]_vars

\* C8, the case: a command was published and answered "published" although
\* its telemetry record is missing
C8_Witness ==
    /\ published # <<>>
    /\ telemetry = <<>>
    /\ http_resp # NoResponse
    /\ http_resp.status_code = 200
    /\ http_resp.cmd = published[Len(published)]

----------------------------------------------------------------------------
(* Properties of the Decision Scheduler, checked under SpecDecision *)

\* the counts of section 8's arithmetic for the three scenes, written out
SceneCounts(boxes) ==
    CASE Len(boxes) = 0 -> <<0, 0, 0>>
      [] Len(boxes) = 1 -> <<1, 0, 0>>
      [] Len(boxes) = 4 -> <<1, 0, 2>>

\* C9: a decision cycle (inference ran) that comes less than minPublishDelay
\* after the channel's last emitted command answers with command = null and
\* dispatches nothing, and its zone_counts are the counts of its own frame.
C9_PublishGate ==
    [][\A c \in Chan : \A boxes \in SceneBoxes : \A store_ok \in BOOLEAN :
          ( /\ DecisionCycle(c, boxes, store_ok)
            /\ clock - last_time[c] >= MIN_INTERVAL
            /\ last_publish_time[c] > 0
            /\ clock - last_publish_time[c] < MIN_PUBLISH_DELAY )
              => /\ outbox'[c][1].skipped = FALSE
                 /\ outbox'[c][1].command = None
                 /\ outbox'[c][1].zone_counts = SceneCounts(boxes)
                 /\ UNCHANGED <<published, telemetry, last_publish_time>>]_vars

\* C9, the case: the section 8 scene answered with its counts and no command,
\* on a channel that had emitted a command less than minPublishDelay before
C9_Witness ==
    \E c \in Chan :
        /\ pc[c] = "send"
        /\ outbox[c][1].skipped = FALSE
        /\ outbox[c][1].command = None
        /\ outbox[c][1].zone_counts = <<1, 0, 2>>
        /\ last_publish_time[c] > 0
        /\ clock - last_publish_time[c] < MIN_PUBLISH_DELAY
        /\ published # <<>>

----------------------------------------------------------------------------
(* Properties of the Zone Aggregator, checked under SpecAgg *)

RECURSIVE SumTo(_, _)
SumTo(f, n) == IF n = 0 THEN 0 ELSE f[n] + SumTo(f, n - 1)

\* a detection the claim counts: a vehicle whose midpoint is below W
Qualifies(W, d) == d.label \in VehicleLabels /\ d.x1 + d.x2 < 2 * W

ZonesHolding(W, N, d) == {i \in 1 .. N : InZone(W, N, i, d)}

\* C10: for every width W, zone count N and detection list, each vehicle
\* detection with midpoint below W lies in exactly one zone, a vehicle with
\* midpoint at or beyond W in none, and the per-zone counts add up to the number
\* of vehicle detections with midpoint below W.
C10_CountsConserved ==
    agg_out # NoCall =>
        LET W == agg_in.W
            N == agg_in.N
            dets == agg_in.dets
        IN  /\ DOMAIN agg_out = 1 .. N
            /\ \A k \in 1 .. Len(dets) :
                  Cardinality(ZonesHolding(W, N, dets[k]))
                      = IF dets[k].x1 + dets[k].x2 < 2 * W THEN 1 ELSE 0
            /\ SumTo(agg_out, N)
                  = Cardinality({k \in 1 .. Len(dets) : Qualifies(W, dets[k])})

\* C10, the case: width 3 in 2 zones (the last zone takes the remainder), a car
\* in the remainder counted, a car at the right edge dropped
C10_Witness ==
    /\ agg_out = <<0, 1>>
    /\ agg_in.W = 3
    /\ agg_in.N = 2
    /\ agg_in.dets = <<[x1 |-> 2, x2 |-> 3, label |-> "car"],
                       [x1 |-> 3, x2 |-> 3, label |-> "car"]>>

----------------------------------------------------------------------------
(* The channels' timers *)

\* C11: the rate-limit clock is kept per channel: a pass of the loop body on
\* one channel, whether its frame is processed or skipped, changes neither the
\* last-processed timestamp of the other channel nor whether the other
\* channel's next frame would be skipped, whatever the interleaving.
C11_TimersPerChannel ==
    [][\A a \in Chan, b \in Chan :
          (a # b /\ \E data \in Texts : FramePass(a, data))
              => /\ last_time'[b] = last_time[b]
                 /\ Gated(clock', last_time'[b]) <=> Gated(clock, last_time[b])
                 /\ pc'[b] = pc[b]
                 /\ outbox'[b] = outbox[b]]_vars

\* both channels have run inference, at different times; one has just had a
\* frame skipped while the other's frame was processed
C11_Witness ==
    /\ last_time["chA"] > 0
    /\ last_time["chB"] > last_time["chA"]
    /\ pc["chA"] = "send" /\ outbox["chA"] = <<SkippedAck>>
    /\ pc["chB"] = "send" /\ outbox["chB"] # <<SkippedAck>>
    /\ last_time["chB"] = clock

\* C12: the gate follows a monotonic clock: an adjustment of the host's wall
\* clock, during which no time passes, never changes whether the next frame
\* of a channel that has run inference is skipped or processed.
C12_MonotonicGate ==
    [][\A t \in Clock :
          ClockStep(t)
              => \A c \in Chan :
                    (pc[c] = "recv" /\ last_time[c] > 0)
                        => (Gated(clock', last_time[c]) <=> Gated(clock, last_time[c]))]_vars

----------------------------------------------------------------------------
(* Startup *)

\* C13: an unreachable broker or store at startup is fatal at boot: once the
\* startup connection to the broker or the initialisation of the store has
\* failed, the service accepts no /ws channel and answers no POST /traffic.
C13_StartupFailureFatal ==
    [][(mqtt_thread = "dead" \/ app = "failed")
          => /\ \A c \in Chan : ~(pc[c] = "idle" /\ pc'[c] = "recv")
             /\ ~(http_resp = NoResponse /\ http_resp' # NoResponse)]_vars

----------------------------------------------------------------------------
(* Order of messages and responses on a channel *)

\* resp is a response the handler gives to the text message data
Answers(data, resp) ==
    CASE DecodeFrame(data) = None   -> resp = [error |-> "invalid_image"]
      [] DecodeFrame(data) \in Frames ->
             \/ resp = SkippedAck
             \/ \E b \in BoxLists : resp = [detections |-> Detections(b), skipped |-> FALSE]
      [] OTHER -> FALSE

\* C14: a channel's messages are handled one at a time in arrival order: a
\* message is read only when no response is pending; a pass of the loop body
\* that does not end the handler leaves exactly one response pending, and it
\* answers the message just read (error ack, skipped ack or result); the
\* handler reads nothing more until that response is sent; and while a pass
\* runs inference no channel reads another message.
C14_OneResponsePerMessage ==
    [][\A c \in Chan :
          /\ (\E data \in Texts, result \in ModelOutcomes : Receive(c, data, result))
                => /\ outbox[c] = <<>>
                   /\ pc'[c] \in {"send", "closed"}
                   /\ pc'[c] = "closed" => outbox'[c] = <<>>
          /\ pc'[c] = "send"
                => /\ Len(outbox'[c]) = 1
                   /\ Answers(recv_data'[c], outbox'[c][1])
          /\ (pc[c] = "send" /\ pc'[c] # "send")
                => /\ recv_data'[c] = recv_data[c]
                   /\ outbox'[c] = <<>>
          /\ pc[c] = "send"
                => /\ recv_data'[c] = recv_data[c]
                   /\ pc'[c] = "send" => outbox'[c] = outbox[c]
          /\ ModelCalled(c)
                => \A b \in Chan \ {c} : /\ pc'[b] = pc[b]
                                          /\ recv_data'[b] = recv_data[b]
                                          /\ outbox'[b] = outbox[b]]_vars

\* a later message of a channel is being answered: frame "jpg2" has been
\* skipped because an earlier frame of the channel was processed
C14_Witness ==
    /\ pc["chA"] = "send"
    /\ recv_data["chA"] = "jpg2"
    /\ outbox["chA"] = <<SkippedAck>>
    /\ last_time["chA"] > 0

----------------------------------------------------------------------------
(* What a skipped frame does to the timer *)

\* C15: a skipped frame leaves the channel's timer as it was, so the gate
\* measures from the last processed frame: whatever was skipped in between,
\* a decoded frame that arrives when the handler's clock reads MIN_INTERVAL
\* or more past the last processed frame is handed to the model and becomes
\* the new reference of the timer.
C15_SkipKeepsTimer ==
    [][\A c \in Chan, data \in Texts :
          FramePass(c, data)
              => /\ (pc'[c] = "send" /\ outbox'[c] = <<SkippedAck>>)
                     => last_time'[c] = last_time[c]
                 /\ clock - last_time[c] >= MIN_INTERVAL
                     => /\ ModelCalled(c)
                        /\ last_time'[c] = clock
                 /\ last_time'[c] # last_time[c] => ModelCalled(c)]_vars

\* a channel whose last inference lies exactly MIN_INTERVAL back has answered
\* a frame since and waits for the next one
C15_Witness ==
    /\ pc["chA"] = "recv"
    /\ last_time["chA"] > 0
    /\ clock = last_time["chA"] + MIN_INTERVAL
    /\ recv_data["chA"] = "jpg2"
    /\ local_last_frame["chA"] = "frame2"

----------------------------------------------------------------------------
(* Bytes that are no image *)

ErrorAck == [error |-> "invalid_image"]

\* C16: when the text decodes to bytes from which the decoder yields no frame,
\* the handler hands {"error": "invalid_image"} to send_json without calling
\* the model, leaves its frame cache, the module's frame cache and the
\* channel's timer as they were, and once the acknowledgment is sent is back
\* in receive_text.
C16_InvalidImageAcked ==
    [][\A c \in Chan :
          /\ \A data \in Texts :
                (b64decode(data) = "bytes:garbage"
                   /\ \E result \in ModelOutcomes : Receive(c, data, result))
                    => /\ pc'[c] = "send"
                       /\ outbox'[c] = <<ErrorAck>>
                       /\ ~ModelCalled(c)
                       /\ last_frame' = last_frame
                       /\ local_last_frame' = local_last_frame
                       /\ last_time' = last_time
                       /\ err' = err
          /\ (outbox[c] = <<ErrorAck>> /\ Sent(c))
                => /\ pc'[c] = "recv"
                   /\ last_frame' = last_frame
                   /\ local_last_frame' = local_last_frame
                   /\ last_time' = last_time]_vars

\* a channel that has processed a frame was sent bytes that are no image, has
\* acknowledged them and waits for its next message
C16_Witness ==
    /\ pc["chA"] = "recv"
    /\ recv_data["chA"] = "AAAA"
    /\ last_time["chA"] > 0
    /\ local_last_frame["chA"] = "frame1"

----------------------------------------------------------------------------
(* The message callback *)

\* C17: for every message on a subscribed topic the callback makes exactly one
\* telemetry append, of that message's topic and payload, before anything it
\* does for the sound threshold, and returns without raising whether or not
\* the store takes the record and whatever the payload is; the MQTT thread
\* and its session are as before, so later messages are delivered.
C17_EveryMessageStoredOnce ==
    [][\A topic \in Topics, raw \in Payloads, store_ok \in BOOLEAN :
          on_message(topic, raw, store_ok)
              => /\ callback'.topic = topic
                 /\ callback'.payload = PayloadText(raw)
                 /\ ~callback'.raised
                 /\ callback'.trace[1] = "store"
                 /\ \A i \in 2 .. Len(callback'.trace) : callback'.trace[i] # "store"
                 /\ telemetry' = IF store_ok
                                  THEN Append(telemetry, [topic |-> topic,
                                                          payload |-> PayloadText(raw)])
                                  ELSE telemetry
                 /\ mqtt_thread' = "looping"
                 /\ broker' = "up"]_vars

\* a sound message that is neither a number nor JSON has been handled while
\* the store refused its record, after an earlier message was recorded
C17_Witness ==
    /\ callback.topic = TOPIC_SOUND
    /\ callback.payload = "loud"
    /\ callback.trace = <<"store", "sound">>
    /\ ~callback.raised
    /\ Len(telemetry) = 1
    /\ telemetry[1].payload # "loud"

----------------------------------------------------------------------------
(* The first frame of a channel *)

\* C18: the first frame a channel's handler decodes is never skipped: the
\* model is called for it and, unless the call raises, it is answered with
\* skipped = false, whatever the other channel has done before.
C18_FirstFrameProcessed ==
    [][\A c \in Chan, data \in Texts :
          (FramePass(c, data) /\ local_last_frame[c] = None)
              => /\ ModelCalled(c)
                 /\ outbox'[c] # <<SkippedAck>>
                 /\ last_time'[c] = clock]_vars

\* chB is being answered for its first frame, processed at the very reading
\* of the clock at which chA ran inference too
C18_Witness ==
    /\ pc["chB"] = "send"
    /\ outbox["chB"] # <<SkippedAck>>
    /\ outbox["chB"] # <<ErrorAck>>
    /\ last_time["chB"] = clock
    /\ clock < 2 * MIN_INTERVAL
    /\ last_time["chA"] = clock
    /\ pc["chA"] = "recv"

----------------------------------------------------------------------------
(* Telemetry of the manual override *)

RECURSIVE Embeds(_, _)
\* the sequence s is t with some of its members left out
Embeds(s, t) ==
    IF s = <<>> THEN TRUE
    ELSE IF t = <<>> THEN FALSE
    ELSE IF Head(s) = Head(t) THEN Embeds(Tail(s), Tail(t))
    ELSE Embeds(s, Tail(t))

IsTrafficRecord(doc) == doc.topic = TOPIC_TRAFFIC_OUT

\* the commands of the records written for the outbound traffic topic
RecordedCmds ==
    LET recs == SelectSeq(telemetry, IsTrafficRecord)
    IN  [i \in 1 .. Len(recs) |-> recs[i].payload]

\* C19: in every reachable state the records of the outbound traffic topic
\* are, in order, commands that were handed to the broker's publish; and a
\* step that writes a record is the override request that hands that very
\* command to publish and answers 200, never one answered 400 or 503.
C19_RecordsFollowPublish ==
    /\ [](Embeds(RecordedCmds, published))
    /\ [][telemetry' # telemetry
            => \E cmd \in ValidCmds :
                  /\ telemetry' = Append(telemetry, TrafficRecord(cmd))
                  /\ published' = Append(published, cmd)
                  /\ mqtt_connected
                  /\ http_resp'.status_code = 200
                  /\ http_resp'.cmd = cmd]_vars

\* two commands were published; the record of the first was refused by the
\* store, the record of the second is the only one
C19_Witness ==
    /\ Len(published) = 2
    /\ published[1] # published[2]
    /\ telemetry = <<TrafficRecord(published[2])>>
    /\ http_resp # NoResponse
    /\ http_resp.status_code = 200

====
